---- MODULE Spec2Model ----
(***************************************************************************)
(* DocumentStore (src/src/index.ts): a chunked document cache.  The store  *)
(* keeps a lookup table (buckets of paths), a chunk cache (one slot per    *)
(* bucket), a flattened content list and two status flags.  Async methods  *)
(* are modelled as frames in `calls`, one step per stretch of code between *)
(* two awaits; the remote is a fixed summary plus one chunk document per   *)
(* bucket, and every fetch either resolves with the document or rejects.   *)
(***************************************************************************)
EXTENDS Integers, Sequences, FiniteSets, Bags, TLC

\* ------------------------------------------------------------------ bounds
\* this.CHUNK_SIZE: 40 at construction, set to 2 by the tests.
CHUNK_SIZE == 2
\* Frames (async calls not yet settled) that may exist at once.
MaxCalls == 2
\* Puts are made while the content list is shorter than this.
MaxContent == 4

DOCUMENT_STORE_VERSION == "1"

\* ------------------------------------------------------------------ values
\* A StructuredFile: identity is `path`; name and content together are `v`.
File(p, v) == [path |-> p, v |-> v]
\* JavaScript `undefined` where a StructuredFile is expected (an array hole,
\* an index past the end), and a null/undefined `file` argument.
UNDEF == File("?undefined", 0)
NULLF == File("?null", 0)
\* A slot of `chunks` that was never assigned (a hole of the sparse array).
Hole == <<File("?hole", 0)>>

RemotePaths == {"a", "b", "c"}
\* Paths the caller asks for: two the remote may hold, one it never holds.
CallPaths == {"a", "c", "d"}
\* Files the caller puts: a new payload for a persisted path, two payloads
\* for a path the remote never has, an empty path and a null file.
PutFiles == {File("a", 2), File("d", 1), File("d", 2), File("", 1), NULLF}

\* Summaries a remote may hold: none yet (first run), or buckets of at most
\* CHUNK_SIZE paths, no path twice, the last bucket full or not, non-last
\* buckets full or not (the test fixture read with the default CHUNK_SIZE
\* has buckets of 2 and 1 paths).
RemoteLookups ==
    { lk \in { <<>>, << <<"a", "b">> >>, << <<"a", "b">>, <<"c">> >>,
               << <<"a">>, <<"c">> >> } :
        \A i \in 1..Len(lk) : Len(lk[i]) <= CHUNK_SIZE }

VARIABLES
    remote,     \* the summary lookup the remote holds; chunk documents follow it
    meta,       \* this.meta
    lookup,     \* this.lookup: string[][]
    chunks,     \* this.chunks: StructuredFile[][] (sparse: Hole = unassigned)
    content,    \* this.content: StructuredFile[] (UNDEF = hole)
    status,     \* this.status: {summary, chunks}
    calls,      \* the async calls in flight: a bag of frames
    rejected    \* history: some chunk fetch has been rejected

vars == <<remote, meta, lookup, chunks, content, status, calls, rejected>>

\* ------------------------------------------------------- array primitives
Max(a, b) == IF a > b THEN a ELSE b

\* Array.prototype.includes / indexOf on a bucket (0-based, -1 when absent).
includes(bucket, x) == \E j \in 1..Len(bucket) : bucket[j] = x

indexOf(bucket, x) ==
    IF includes(bucket, x)
    THEN (CHOOSE j \in 1..Len(bucket) :
            bucket[j] = x /\ \A k \in 1..(j - 1) : bucket[k] # x) - 1
    ELSE -1

\* arr[i] = x on a JavaScript array: in range it overwrites, past the end it
\* pads with holes, and a negative index sets a property, not an element.
SetAt(arr, i, x, hole) ==
    IF i < 0 THEN arr
    ELSE IF i < Len(arr) THEN [arr EXCEPT ![i + 1] = x]
    ELSE arr \o [j \in 1..(i - Len(arr)) |-> hole] \o <<x>>

\* arr[i] read: undefined outside the array.
At(arr, i, hole) == IF i >= 0 /\ i < Len(arr) THEN arr[i + 1] ELSE hole

\* ------------------------------------------------------------ path helpers
getFileHash(path) == path

findBucket(lk, key) ==
    IF \E i \in 1..Len(lk) : includes(lk[i], key)
    THEN (CHOOSE i \in 1..Len(lk) :
            includes(lk[i], key) /\ \A k \in 1..(i - 1) : ~includes(lk[k], key)) - 1
    ELSE -1

\* Mutant: a path in no bucket is taken to be in the first one.
getChunkFileIsIn_first(lk, path) == Max(findBucket(lk, getFileHash(path)), 0)

getChunkFileIsIn(lk, path) == findBucket(lk, getFileHash(path))

\* Mutant: the offset is not looked up; the first record of the chunk is taken.
getFileIndexInChunk_first(lk, chunk, path) == 0

getFileIndexInChunk(lk, chunk, path) == indexOf(lk[chunk + 1], getFileHash(path))

\* Mutant: the existence check never finds the path.
fileExists_never(lk, path) == FALSE

fileExists(lk, path) == findBucket(lk, getFileHash(path)) > -1

\* Mutant: every chunk counts as loaded.
isChunkLoaded_always(ch, chunkIndex) == TRUE

isChunkLoaded(ch, chunkIndex) ==
    LET slot == At(ch, chunkIndex, Hole) IN slot # Hole /\ Len(slot) > 0

\* The chunk document the remote holds for an index: the records of the
\* summary's bucket, in order, each with the persisted payload 1.
HasChunkDoc(rem, chunkIndex) == chunkIndex >= 0 /\ chunkIndex < Len(rem)
ChunkDoc(rem, chunkIndex) ==
    [j \in 1..Len(rem[chunkIndex + 1]) |-> File(rem[chunkIndex + 1][j], 1)]


\* ------------------------------------------------------------ document paths
\* Strings that are built from numbers are sequences: a chunk key is the
\* sequence of its characters (digits), a path the sequence of its parts.
NAMESPACE == "duck"

RECURSIVE Digits(_)
Digits(n) == IF n < 10 THEN <<n>> ELSE Append(Digits(n \div 10), n % 10)

\* String.prototype.padStart: fills on the left up to `len`, never cuts.
padStart(str, len, fill) == [i \in 1..(len - Len(str)) |-> fill] \o str

\* Mutant: keys are padded to four characters.
chunkIndexToChunkKey_four(k) == padStart(Digits(k), 4, 0)

chunkIndexToChunkKey(k) == padStart(Digits(k), 5, 0)
chunkKeyToChunkPath(namespace, k) == <<".", namespace, "/", k, ".json">>
getChunkSummaryPath(namespace) == <<".", namespace, "/", namespace, ".json">>

\* The paths loadSummary and loadChunk pass to getRemote.
loadSummaryPath(namespace) == getChunkSummaryPath(namespace)
loadChunkPath(namespace, chunkIndex) ==
    chunkKeyToChunkPath(namespace, chunkIndexToChunkKey(chunkIndex))

\* ------------------------------------------------------------ store values
\* The mutable fields of one store, passed to and returned by the methods.
Store == [lookup |-> lookup, chunks |-> chunks, content |-> content, status |-> status]

\* What a call hands back: true/false, null, a file, a thrown error (a
\* rejected promise for an async method), nothing, or nothing yet.
Ret(kind) == [kind |-> kind, file |-> UNDEF]
RetFile(f) == [kind |-> "file", file |-> f]

\* The outcome of running a method up to its first await (or to its end):
\* the store it leaves, what it returned, and the chunk index whose fetch it
\* awaits (-1 when it ran to its end).
Out(S, ret, ci) == [store |-> S, ret |-> ret, ci |-> ci]

\* Mutant: every new path opens a bucket of its own.
addToEndOfLookup_newBucket(lk, path) == Append(lk, <<path>>)

addToEndOfLookup(lk, path) ==
    IF Len(lk) = 0 \/ Len(lk[Len(lk)]) = CHUNK_SIZE
    THEN Append(lk, <<path>>)
    ELSE [lk EXCEPT ![Len(lk)] = Append(@, path)]

addToEndOfChunks(ch, file) ==
    IF Len(ch) = 0 \/ Len(ch[Len(ch)]) = CHUNK_SIZE
    THEN Append(ch, <<file>>)
    ELSE [ch EXCEPT ![Len(ch)] = Append(@, file)]

\* loadChunk after its fetch resolved with `doc`.
loadChunkStore(S, chunkIndex, doc) ==
    [S EXCEPT !.content = S.content \o doc,
              !.chunks = SetAt(S.chunks, chunkIndex, doc, Hole)]

\* loadChunk after its fetch settled: resolved with the chunk document when
\* `ok` and the remote holds one for the index, rejected otherwise.
Resolves(chunkIndex, ok) == ok /\ HasChunkDoc(remote, chunkIndex)

\* Mutant: a rejected fetch leaves an empty list in the slot.
loadChunkSettled_partial(S, chunkIndex, ok) ==
    loadChunkStore(S, chunkIndex,
                   IF Resolves(chunkIndex, ok) THEN ChunkDoc(remote, chunkIndex) ELSE <<>>)

\* Mutant: a fetch that resolves for a chunk loaded meanwhile is dropped.
loadChunkSettled_checked(S, chunkIndex, ok) ==
    IF Resolves(chunkIndex, ok) /\ ~isChunkLoaded(S.chunks, chunkIndex)
    THEN loadChunkStore(S, chunkIndex, ChunkDoc(remote, chunkIndex))
    ELSE S

loadChunkSettled(S, chunkIndex, ok) ==
    IF Resolves(chunkIndex, ok)
    THEN loadChunkStore(S, chunkIndex, ChunkDoc(remote, chunkIndex))
    ELSE S

\* loadChunk as a caller that awaits it sees it: true without a fetch for a
\* loaded chunk (ci = -1); otherwise the fetch of chunkIndex settles and
\* loadChunk returns true when it resolved, false when it was rejected.
loadChunk(S, chunkIndex, ok) ==
    IF isChunkLoaded(S.chunks, chunkIndex) THEN Out(S, Ret("true"), -1)
    ELSE Out(loadChunkSettled(S, chunkIndex, ok),
             Ret(IF Resolves(chunkIndex, ok) THEN "true" ELSE "false"), chunkIndex)

\* Mutant: a record whose path is not the requested one is not returned.
getFileRead_checked(S, chunkIndex, path) ==
    IF chunkIndex >= Len(S.lookup) THEN Out(S, Ret("throw"), -1)
    ELSE LET fileIndexInChunk == getFileIndexInChunk(S.lookup, chunkIndex, path)
             slot == At(S.chunks, chunkIndex, Hole)
             rec == IF slot = Hole THEN UNDEF ELSE At(slot, fileIndexInChunk, UNDEF)
         IN IF rec = UNDEF THEN Out(S, Ret("throw"), -1)
            ELSE IF rec.path # path THEN Out(S, Ret("null"), -1)
            ELSE Out(S, RetFile(rec), -1)

\* getFile from the read of the bucket offset on: a TypeError when the
\* bucket, the slot or the record at the offset is undefined.
getFileRead(S, chunkIndex, path) ==
    IF chunkIndex >= Len(S.lookup) THEN Out(S, Ret("throw"), -1)
    ELSE LET fileIndexInChunk == getFileIndexInChunk(S.lookup, chunkIndex, path)
             slot == At(S.chunks, chunkIndex, Hole)
             rec == IF slot = Hole THEN UNDEF ELSE At(slot, fileIndexInChunk, UNDEF)
         IN IF rec = UNDEF THEN Out(S, Ret("throw"), -1)
            ELSE Out(S, RetFile(rec), -1)

\* Mutant: getFile without the summary-loaded precondition.
getFile_unguarded(S, path) ==
    LET chunkIndex == getChunkFileIsIn(S.lookup, path)
    IN IF chunkIndex = -1 THEN Out(S, Ret("null"), -1)
       ELSE IF ~isChunkLoaded(S.chunks, chunkIndex)
            THEN Out(S, Ret("pending"), chunkIndex)
            ELSE getFileRead(S, chunkIndex, path)

\* getFile up to its first await.
getFile(S, path) ==
    IF ~S.status.summary THEN Out(S, Ret("throw"), -1)
    ELSE LET chunkIndex == getChunkFileIsIn(S.lookup, path)
         IN IF chunkIndex = -1 THEN Out(S, Ret("null"), -1)
            ELSE IF ~isChunkLoaded(S.chunks, chunkIndex)
                 THEN Out(S, Ret("pending"), chunkIndex)
                 ELSE getFileRead(S, chunkIndex, path)

\* getFile as a caller that awaits it sees it: up to the await, the fetch
\* settling, and the read.
getFileAwaited(S, path, ok) ==
    LET G == getFile(S, path)
    IN IF G.ci < 0 THEN G
       ELSE getFileRead(loadChunkSettled(S, G.ci, ok), G.ci, path)

\* updateFile from the read of the bucket offset on: the two in-place
\* writes; a TypeError when the bucket or the slot is undefined.
updateFileWrite(S, chunkIndex, file) ==
    IF chunkIndex >= Len(S.lookup) \/ At(S.chunks, chunkIndex, Hole) = Hole
    THEN Out(S, Ret("throw"), -1)
    ELSE LET fileIndexInChunk == getFileIndexInChunk(S.lookup, chunkIndex, file.path)
         IN Out([S EXCEPT
                   !.chunks[chunkIndex + 1] = SetAt(@, fileIndexInChunk, file, UNDEF),
                   !.content = SetAt(@, chunkIndex * CHUNK_SIZE + fileIndexInChunk,
                                     file, UNDEF)],
                Ret("true"), -1)

\* Mutant: addFile that inserts without looking for the path first.
addFile_alwaysInserts(S, file) ==
    IF ~S.status.chunks THEN Out(S, Ret("throw"), -1)
    ELSE IF file = NULLF \/ file.path = "" THEN Out(S, Ret("false"), -1)
    ELSE Out([S EXCEPT !.lookup = addToEndOfLookup(@, file.path),
                       !.chunks = addToEndOfChunks(@, file),
                       !.content = Append(@, file)],
             Ret("true"), -1)

RECURSIVE addFile(_, _), updateFile(_, _)

\* Mutant: addFile that takes a file whose path is empty.
addFile_anyPath(S, file) ==
    IF ~S.status.chunks THEN Out(S, Ret("throw"), -1)
    ELSE IF file = NULLF THEN Out(S, Ret("false"), -1)
    ELSE IF fileExists(S.lookup, file.path)
         THEN LET U == updateFile(S, file) IN Out(U.store, Ret("true"), U.ci)
         ELSE Out([S EXCEPT !.lookup = addToEndOfLookup(@, file.path),
                            !.chunks = addToEndOfChunks(@, file),
                            !.content = Append(@, file)],
                  Ret("true"), -1)

\* addFile: synchronous.  For a path already present it calls updateFile
\* and returns true without awaiting it: the promise cannot throw into the
\* try block, and when updateFile had to await a fetch it is still pending
\* (ci >= 0) when addFile returns.
addFile(S, file) ==
    IF ~S.status.chunks THEN Out(S, Ret("throw"), -1)
    ELSE IF file = NULLF \/ file.path = "" THEN Out(S, Ret("false"), -1)
    ELSE IF fileExists(S.lookup, file.path)
         THEN LET U == updateFile(S, file) IN Out(U.store, Ret("true"), U.ci)
         ELSE Out([S EXCEPT !.lookup = addToEndOfLookup(@, file.path),
                            !.chunks = addToEndOfChunks(@, file),
                            !.content = Append(@, file)],
                  Ret("true"), -1)

\* Mutant: updateFile without the chunks-loaded precondition.
updateFile_unguarded(S, file) ==
    IF file = NULLF THEN Out(S, Ret("false"), -1)
    ELSE IF ~fileExists(S.lookup, file.path)
         THEN LET A == addFile(S, file)
              IN IF A.ret.kind = "throw" THEN Out(S, Ret("false"), -1)
                 ELSE Out(A.store, Ret("true"), -1)
    ELSE LET chunkIndex == getChunkFileIsIn(S.lookup, file.path)
         IN IF chunkIndex = -1 THEN Out(S, Ret("false"), -1)
            ELSE IF ~isChunkLoaded(S.chunks, chunkIndex)
                 THEN Out(S, Ret("pending"), chunkIndex)
                 ELSE updateFileWrite(S, chunkIndex, file)

\* updateFile up to its first await.
updateFile(S, file) ==
    IF ~S.status.chunks THEN Out(S, Ret("throw"), -1)
    ELSE IF file = NULLF THEN Out(S, Ret("false"), -1)
    ELSE IF ~fileExists(S.lookup, file.path)
         THEN LET A == addFile(S, file)
              IN IF A.ret.kind = "throw" THEN Out(S, Ret("false"), -1)
                 ELSE Out(A.store, Ret("true"), -1)
    ELSE LET chunkIndex == getChunkFileIsIn(S.lookup, file.path)
         IN IF chunkIndex = -1 THEN Out(S, Ret("false"), -1)
            ELSE IF ~isChunkLoaded(S.chunks, chunkIndex)
                 THEN Out(S, Ret("pending"), chunkIndex)
                 ELSE updateFileWrite(S, chunkIndex, file)


\* -------------------------------------------------------------- the remote
\* Objects with string keys (meta) are functions from keys to values.
\* {...m, ...add}: the keys of both, the values of `add` winning.
Merge(m, add) ==
    [k \in DOMAIN m \cup DOMAIN add |-> IF k \in DOMAIN add THEN add[k] ELSE m[k]]
\* m?.[key] || fallback, m?.[key] ?? fallback: a missing key gives the fallback.
Get(m, key, fallback) == IF key \in DOMAIN m THEN m[key] ELSE fallback

\* The summary document's meta as the remote holds it (the test fixture has
\* no version field); a summary written without the template key; and the
\* additionalMeta the store was constructed with.
RemoteMeta == [created_at |-> "remote", updated_at |-> "remote", pipelines |-> "remote"]
RemoteMetaBare == [created_at |-> "remote", updated_at |-> "remote"]
metaTemplate == [pipelines |-> "template"]

\* The summary document a remote with lookup `rem` holds.
SummaryOf(rem) ==
    [meta |-> IF rem = << <<"a">>, <<"c">> >> THEN RemoteMetaBare ELSE RemoteMeta,
     lookup |-> rem]

\* loadSummary's local `summary` before the fetch.
defaultSummary ==
    [meta |-> Merge([version |-> DOCUMENT_STORE_VERSION, created_at |-> "now",
                     updated_at |-> "now"], metaTemplate),
     lookup |-> <<>>]

\* How the summary fetch can settle: rejected, resolved with {} or resolved
\* with a summary document; and how it settles on the remote there is.
FetchOutcomes == {"rejected", "empty", "summary"}
RemoteOutcome == IF remote = <<>> THEN "empty" ELSE "summary"

\* Mutant: whatever the fetch did, the remote's document is taken.
summaryFetched_noFallback(outcome, rem) == SummaryOf(rem)

\* loadSummary's local `summary` after the try block.
summaryFetched(outcome, rem) ==
    IF outcome = "summary" THEN SummaryOf(rem) ELSE defaultSummary

\* Mutant: this.meta becomes the summary's meta.
loadSummaryMeta_replace(m, summary) == summary.meta

\* loadSummary's assignments to this.meta and this.lookup.
loadSummaryMeta(m, summary) ==
    Merge(Merge(m, [version |-> Get(summary.meta, "version", DOCUMENT_STORE_VERSION),
                    created_at |-> Get(summary.meta, "created_at", "now"),
                    updated_at |-> Get(summary.meta, "updated_at", "now")]),
          [k \in DOMAIN metaTemplate |-> Get(summary.meta, k, metaTemplate[k])])

loadSummaryLookup(summary) == summary.lookup

\* Mutant: meta becomes the object that was passed.
updateMetadata_replace(m, additionalMeta) == additionalMeta

\* updateMetadata and setUpdatedAt, and the arguments callers pass them.
updateMetadata(m, additionalMeta) == Merge(m, additionalMeta)
setUpdatedAt(m, updated_at) == [m EXCEPT !.updated_at = updated_at]
MetaUpdates == {[pipelines |-> "custom"], [owner |-> "x"],
                [owner |-> "y", pipelines |-> "custom"]}
Dates == {"now", "later"}

\* ------------------------------------------------------------------ frames
\* A call in flight: the method, its argument (getFile's path travels in a
\* File), whether addFile started it without awaiting it, where it stands
\* (pc), the chunk index it works on and, for load, the number of chunk
\* indices it listed (-1 before it lists them).
Frame(op, file, detached, pc, ci) ==
    [op |-> op, file |-> file, detached |-> detached, pc |-> pc, ci |-> ci, n |-> -1]

\* The bag of frames with one more frame, one frame less, one frame changed.
Started(f) == calls (+) SetToBag({f})
Ended(f) == calls (-) SetToBag({f})
Moved(f, g) == (calls (-) SetToBag({f})) (+) SetToBag({g})

Adopt(S) ==
    /\ lookup' = S.lookup
    /\ chunks' = S.chunks
    /\ content' = S.content
    /\ status' = S.status

\* Who may call: a single caller awaits every promise it is handed, so it
\* calls only when the frames left are the ones addFile never awaited.
Idle == \A f \in BagToSet(calls) : f.detached
SingleCaller == Idle /\ BagCardinality(calls) < MaxCalls
\* Callers that do not wait for each other: a call may be made whatever is
\* pending.
AnyCaller == BagCardinality(calls) < MaxCalls

\* A namespace argument that was not passed (undefined), and the namespace
\* arguments a caller may pass.
NoNamespace == "?undefined"
Namespaces == {NAMESPACE, "acme", "", NoNamespace}

\* Mutant: the constructor takes any arguments.
constructor_unchecked(namespace, getRemote, additionalMeta) ==
    [ret |-> Ret("undefined"),
     meta |-> Merge([version |-> DOCUMENT_STORE_VERSION, updated_at |-> "now",
                     created_at |-> "now"], additionalMeta),
     lookup |-> <<>>, chunks |-> <<>>, content |-> <<>>,
     status |-> [summary |-> FALSE, chunks |-> FALSE]]

\* The constructor; `getRemote` tells whether a fetch function was passed.
\* When it throws there is no store (the fields below are not read).
constructor(namespace, getRemote, additionalMeta) ==
    [ret |-> IF namespace = "" \/ namespace = NoNamespace \/ ~getRemote
             THEN Ret("throw") ELSE Ret("undefined"),
     meta |-> Merge([version |-> DOCUMENT_STORE_VERSION, updated_at |-> "now",
                     created_at |-> "now"], additionalMeta),
     lookup |-> <<>>, chunks |-> <<>>, content |-> <<>>,
     status |-> [summary |-> FALSE, chunks |-> FALSE]]

Init ==
    LET C == constructor(NAMESPACE, TRUE, metaTemplate)
    IN /\ remote \in RemoteLookups
       /\ C.ret # Ret("throw")
       /\ meta = C.meta
       /\ lookup = C.lookup
       /\ chunks = C.chunks
       /\ content = C.content
       /\ status = C.status
       /\ calls = EmptyBag
       /\ rejected = FALSE

\* ------------------------------------------------------------------ calls
CallLoadSummary(can) ==
    /\ can
    /\ calls' = Started(Frame("loadSummary", NULLF, FALSE, "fetchSummary", -1))
    /\ UNCHANGED <<remote, meta, lookup, chunks, content, status, rejected>>

\* Mutant: load starts its loop over until every listed chunk is loaded.
loadLoop_untilLoaded(S, k, n) ==
    IF k >= n
    THEN IF \A i \in 0..(n - 1) : isChunkLoaded(S.chunks, i)
         THEN [S |-> [S EXCEPT !.status.chunks = TRUE], pc |-> "end", ci |-> k]
         ELSE [S |-> S, pc |-> "loop", ci |-> 0]
    ELSE IF isChunkLoaded(S.chunks, k) THEN [S |-> S, pc |-> "loop", ci |-> k + 1]
    ELSE [S |-> S, pc |-> "fetchChunk", ci |-> k]

\* Mutant: the chunks flag is set only when every listed chunk is loaded.
loadLoop_strict(S, k, n) ==
    IF k >= n
    THEN [S |-> [S EXCEPT !.status.chunks = \A i \in 0..(n - 1) : isChunkLoaded(S.chunks, i)],
          pc |-> "end", ci |-> k]
    ELSE IF isChunkLoaded(S.chunks, k) THEN [S |-> S, pc |-> "loop", ci |-> k + 1]
    ELSE [S |-> S, pc |-> "fetchChunk", ci |-> k]

\* Mutant: the loop runs one index past the ones load listed.
loadLoop_onePast(S, k, n) ==
    IF k > n THEN [S |-> [S EXCEPT !.status.chunks = TRUE], pc |-> "end", ci |-> k]
    ELSE IF isChunkLoaded(S.chunks, k) THEN [S |-> S, pc |-> "loop", ci |-> k + 1]
    ELSE [S |-> S, pc |-> "fetchChunk", ci |-> k]

\* load from the head of its loop at index k over the n indices it listed:
\* the end (the chunks flag is set), a loadChunk that resolves without a
\* fetch, or the next fetch.
loadLoop(S, k, n) ==
    IF k >= n THEN [S |-> [S EXCEPT !.status.chunks = TRUE], pc |-> "end", ci |-> k]
    ELSE IF isChunkLoaded(S.chunks, k) THEN [S |-> S, pc |-> "loop", ci |-> k + 1]
    ELSE [S |-> S, pc |-> "fetchChunk", ci |-> k]

CallLoad(can) ==
    /\ can
    /\ IF ~status.summary
       THEN /\ calls' = Started(Frame("load", NULLF, FALSE, "fetchSummary", -1))
            /\ status' = status
       ELSE LET L == loadLoop(Store, 0, Len(lookup))
            IN /\ status' = L.S.status
               /\ calls' = IF L.pc = "end" THEN calls
                           ELSE Started([Frame("load", NULLF, FALSE, L.pc, L.ci)
                                           EXCEPT !.n = Len(lookup)])
    /\ UNCHANGED <<remote, meta, lookup, chunks, content, rejected>>

CallLoadChunk(can) ==
    /\ can
    /\ \E chunkIndex \in 0..(Max(Len(remote), Len(lookup)) - 1) :
         calls' = IF isChunkLoaded(chunks, chunkIndex) THEN calls
                  ELSE Started(Frame("loadChunk", NULLF, FALSE, "fetchChunk", chunkIndex))
    /\ UNCHANGED <<remote, meta, lookup, chunks, content, status, rejected>>

CallGetFile(can) ==
    /\ can
    /\ \E path \in CallPaths :
         LET G == getFile(Store, path)
         IN calls' = IF G.ci >= 0
                     THEN Started(Frame("getFile", File(path, 0), FALSE, "fetchChunk", G.ci))
                     ELSE calls
    /\ UNCHANGED <<remote, meta, lookup, chunks, content, status, rejected>>

CallAddFile(can) ==
    /\ can
    /\ Len(content) < MaxContent
    /\ \E file \in PutFiles :
         LET A == addFile(Store, file)
         IN /\ Adopt(A.store)
            /\ calls' = IF A.ci >= 0
                        THEN Started(Frame("updateFile", file, TRUE, "fetchChunk", A.ci))
                        ELSE calls
    /\ UNCHANGED <<remote, meta, rejected>>

CallUpdateFile(can) ==
    /\ can
    /\ Len(content) < MaxContent
    /\ \E file \in PutFiles :
         LET U == updateFile(Store, file)
         IN /\ Adopt(U.store)
            /\ calls' = IF U.ci >= 0
                        THEN Started(Frame("updateFile", file, FALSE, "fetchChunk", U.ci))
                        ELSE calls
    /\ UNCHANGED <<remote, meta, rejected>>

\* ------------------------------------------------------------- await steps
\* Mutant: adopting a summary marks the chunks as not loaded.
SummarySettles_resets ==
    \E f \in BagToSet(calls) :
      LET summary == summaryFetched(RemoteOutcome, remote)
      IN /\ f.pc = "fetchSummary"
         /\ meta' = loadSummaryMeta(meta, summary)
         /\ lookup' = loadSummaryLookup(summary)
         /\ status' = [summary |-> TRUE, chunks |-> FALSE]
         /\ calls' = IF f.op = "load"
                     THEN Moved(f, [f EXCEPT !.pc = "loop", !.ci = 0])
                     ELSE Ended(f)
         /\ UNCHANGED <<remote, chunks, content, rejected>>

\* The summary fetch of a loadSummary (called directly or by load) settles:
\* resolved with the summary of a remote that holds one; rejected, or
\* resolved with {}, by a remote that holds none.  load goes on to list
\* its chunk indices.
SummarySettles ==
    \E f \in BagToSet(calls) :
      LET summary == summaryFetched(RemoteOutcome, remote)
      IN /\ f.pc = "fetchSummary"
         /\ meta' = loadSummaryMeta(meta, summary)
         /\ lookup' = loadSummaryLookup(summary)
         /\ status' = [status EXCEPT !.summary = TRUE]
         /\ calls' = IF f.op = "load"
                     THEN Moved(f, [f EXCEPT !.pc = "loop", !.ci = 0])
                     ELSE Ended(f)
         /\ UNCHANGED <<remote, chunks, content, rejected>>

\* load resumes: after loadSummary it lists the chunk indices of the lookup
\* table as it is then; after a loadChunk it goes on with the indices it
\* listed.
LoadResumes ==
    \E f \in BagToSet(calls) :
      LET n == IF f.n < 0 THEN Len(lookup) ELSE f.n
          L == loadLoop(Store, f.ci, n)
      IN /\ f.pc = "loop"
         /\ status' = L.S.status
         /\ calls' = IF L.pc = "end" THEN Ended(f)
                     ELSE Moved(f, [f EXCEPT !.pc = L.pc, !.ci = L.ci, !.n = n])
         /\ UNCHANGED <<remote, meta, lookup, chunks, content, rejected>>

\* The chunk fetch inside loadChunk settles: resolved with the chunk
\* document (the remote has one for the index) or rejected.
ChunkSettles ==
    \E f \in BagToSet(calls), ok \in BOOLEAN :
      /\ f.pc = "fetchChunk"
      /\ Adopt(loadChunkSettled(Store, f.ci, ok))
      /\ rejected' = (rejected \/ ~Resolves(f.ci, ok))
      /\ calls' = CASE f.op = "loadChunk" -> Ended(f)
                    [] f.op = "load" -> Moved(f, [f EXCEPT !.pc = "loop", !.ci = f.ci + 1])
                    [] OTHER -> Moved(f, [f EXCEPT !.pc = "resume"])
      /\ UNCHANGED <<remote, meta>>

\* getFile resumes after `await this.loadChunk(chunkIndex)`.
GetFileResumes ==
    \E f \in BagToSet(calls) :
      /\ f.pc = "resume" /\ f.op = "getFile"
      /\ calls' = Ended(f)
      /\ UNCHANGED <<remote, meta, lookup, chunks, content, status, rejected>>

\* updateFile resumes after `await this.loadChunk(chunkIndex)`.
UpdateFileResumes ==
    \E f \in BagToSet(calls) :
      LET U == updateFileWrite(Store, f.ci, f.file)
      IN /\ f.pc = "resume" /\ f.op = "updateFile"
         /\ Adopt(U.store)
         /\ calls' = Ended(f)
         /\ UNCHANGED <<remote, meta, rejected>>

\* ------------------------------------------------------------ meta setters
CallUpdateMetadata ==
    /\ \E additionalMeta \in MetaUpdates : meta' = updateMetadata(meta, additionalMeta)
    /\ UNCHANGED <<remote, lookup, chunks, content, status, calls, rejected>>

CallSetUpdatedAt ==
    /\ \E updated_at \in Dates : meta' = setUpdatedAt(meta, updated_at)
    /\ UNCHANGED <<remote, lookup, chunks, content, status, calls, rejected>>

\* ----------------------------------------------------------------- outputs
\* outputSummary and outputChunks build their result from the fields and
\* assign to none of them.
CallOutputSummary == UNCHANGED vars

CallOutputChunks == UNCHANGED vars

\* ----------------------------------------------------------- specifications
\* Single caller: every call is awaited before the next is made.
Next ==
    \/ CallLoadSummary(SingleCaller)
    \/ CallLoad(SingleCaller)
    \/ CallLoadChunk(SingleCaller)
    \/ CallGetFile(SingleCaller)
    \/ CallAddFile(SingleCaller)
    \/ CallUpdateFile(SingleCaller)
    \/ SummarySettles
    \/ LoadResumes
    \/ ChunkSettles
    \/ GetFileResumes
    \/ UpdateFileResumes

Spec == Init /\ [][Next]_vars

\* Single caller that never fetches the summary again once it is loaded.
NextOnce ==
    \/ CallLoadSummary(SingleCaller /\ ~status.summary)
    \/ CallLoad(SingleCaller)
    \/ CallLoadChunk(SingleCaller)
    \/ CallGetFile(SingleCaller)
    \/ CallAddFile(SingleCaller)
    \/ CallUpdateFile(SingleCaller)
    \/ SummarySettles
    \/ LoadResumes
    \/ ChunkSettles
    \/ GetFileResumes
    \/ UpdateFileResumes

SpecOnce == Init /\ [][NextOnce]_vars

\* Single caller, every fetch settles: a fetch that is pending is resolved
\* or rejected by the remote in the end, and the event loop runs every
\* continuation that is ready.
Fairness ==
    /\ WF_vars(SummarySettles)
    /\ WF_vars(ChunkSettles)
    /\ WF_vars(LoadResumes)
    /\ WF_vars(GetFileResumes)
    /\ WF_vars(UpdateFileResumes)

SpecFair == Init /\ [][NextOnce]_vars /\ Fairness

\* Readers that do not wait for each other: loadSummary (once), load and
\* getFile called while other calls are in flight.
NextReaders ==
    \/ CallLoadSummary(AnyCaller /\ ~status.summary)
    \/ CallLoad(AnyCaller)
    \/ CallGetFile(AnyCaller)
    \/ SummarySettles
    \/ LoadResumes
    \/ ChunkSettles
    \/ GetFileResumes

SpecReaders == Init /\ [][NextReaders]_vars

\* Callers that do not wait for each other and also write: load, getFile,
\* addFile and updateFile called while other calls are in flight.
NextWriters ==
    \/ CallLoadSummary(AnyCaller /\ ~status.summary)
    \/ CallLoad(AnyCaller)
    \/ CallGetFile(AnyCaller)
    \/ CallAddFile(AnyCaller)
    \/ CallUpdateFile(AnyCaller)
    \/ SummarySettles
    \/ LoadResumes
    \/ ChunkSettles
    \/ GetFileResumes
    \/ UpdateFileResumes

SpecWriters == Init /\ [][NextWriters]_vars

\* A store that is loaded, has its metadata set and is output: loadSummary,
\* load, the two setters and the two outputs.
NextOutputs ==
    \/ CallLoadSummary(SingleCaller)
    \/ CallLoad(SingleCaller)
    \/ SummarySettles
    \/ LoadResumes
    \/ ChunkSettles
    \/ CallUpdateMetadata
    \/ CallSetUpdatedAt
    \/ CallOutputSummary
    \/ CallOutputChunks

SpecOutputs == Init /\ [][NextOutputs]_vars

\* The metadata of a store: loadSummary and the two setters.
NextMeta ==
    \/ CallLoadSummary(SingleCaller)
    \/ SummarySettles
    \/ CallUpdateMetadata
    \/ CallSetUpdatedAt

SpecMeta == Init /\ [][NextMeta]_vars

\* --------------------------------------------------------------- properties
Loaded == {i \in 0..(Len(chunks) - 1) : isChunkLoaded(chunks, i)}
LookupPaths == {lookup[i][j] : <<i, j>> \in {ij \in (1..Len(lookup)) \X (1..CHUNK_SIZE + 1) :
                                               ij[2] <= Len(lookup[ij[1]])}}
\* Files addFile would insert: not null, path not empty and not yet indexed.
NewFiles == {f \in PutFiles : f # NULLF /\ f.path # "" /\ ~fileExists(lookup, f.path)}
\* Files whose path is already indexed.
KnownFiles == {f \in PutFiles : f # NULLF /\ fileExists(lookup, f.path)}

\* C1: in every state a single caller can reach, for every loaded chunk i
\* and every offset o in it, content[i * CHUNK_SIZE + o] is the record that
\* chunks[i] holds at offset o.
C1_ContentMirrorsChunks ==
    \A i \in Loaded : \A o \in 0..(Len(chunks[i + 1]) - 1) :
        At(content, i * CHUNK_SIZE + o, UNDEF) = chunks[i + 1][o + 1]

\* C2: with the summary loaded once from a remote whose chunk documents list
\* their buckets' paths, every loaded chunk slot i is as long as lookup
\* bucket i and holds at each offset the record of the path at that offset.
C2_LoadedChunkMatchesBucket ==
    status.summary =>
        \A i \in Loaded :
            /\ i < Len(lookup)
            /\ Len(chunks[i + 1]) = Len(lookup[i + 1])
            /\ \A o \in 1..Len(chunks[i + 1]) : chunks[i + 1][o].path = lookup[i + 1][o]

\* C3: once load() has completed, whatever files are added, every populated
\* chunk slot is as long as its lookup bucket, and no bucket and no slot
\* holds more than CHUNK_SIZE entries.
C3_LockstepGrowth ==
    status.chunks =>
        /\ \A i \in Loaded : i < Len(lookup) /\ Len(lookup[i + 1]) = Len(chunks[i + 1])
        /\ \A i \in 1..Len(lookup) : Len(lookup[i]) <= CHUNK_SIZE
        /\ \A i \in 1..Len(chunks) : chunks[i] # Hole => Len(chunks[i]) <= CHUNK_SIZE

\* C4: when addFile inserts a new path, the record lands in the chunk slot
\* with the index of the bucket that received the path, at the offset of
\* the path in that bucket, also after a load() with failed chunk fetches.
C4_AddedRecordInBucketSlot ==
    status.chunks =>
        \A file \in NewFiles :
            LET A == addFile(Store, file).store
                chunkIndex == getChunkFileIsIn(A.lookup, file.path)
                fileIndexInChunk == getFileIndexInChunk(A.lookup, chunkIndex, file.path)
            IN At(At(A.chunks, chunkIndex, Hole), fileIndexInChunk, UNDEF) = file

\* C5: the remote's lookup table holds no path twice, and after any calls
\* of addFile and updateFile no path appears at two places of the lookup
\* table (two buckets, or two offsets of one bucket).
C5_PathIndexedOnce ==
    \A i, k \in 1..Len(lookup) : \A j \in 1..Len(lookup[i]) : \A l \in 1..Len(lookup[k]) :
        lookup[i][j] = lookup[k][l] => (i = k /\ j = l)

\* C5 witness: a new path has been added and an indexed path updated.
C5_Witness ==
    /\ fileExists(lookup, "d") /\ fileExists(lookup, "a")
    /\ \E i \in Loaded : includes(chunks[i + 1], File("a", 2))

\* C6: after load(), addFile of a file with a non-empty path that is not
\* indexed returns true, and the getFile of its path that follows returns
\* exactly that file, whether or not a fetch getFile issues is rejected.
C6_AddThenGet ==
    status.chunks =>
        \A file \in NewFiles : \A ok \in BOOLEAN :
            LET A == addFile(Store, file)
            IN /\ A.ret = Ret("true")
               /\ getFileAwaited(A.store, file.path, ok).ret = RetFile(file)

\* A put (the outcome U of updateFile or addFile up to its first await)
\* that the caller does not await, then getFile of the same path, awaited.
\* When the put awaits the fetch of the path's chunk, getFile awaits a fetch
\* of the same chunk; the put's fetch settles and the put resumes, then
\* getFile's fetch settles and getFile resumes.
putThenGet(U, file, okPut, okGet) ==
    IF U.ci < 0 THEN getFileAwaited(U.store, file.path, okGet).ret
    ELSE LET S1 == loadChunkSettled(U.store, U.ci, okPut)
             S2 == updateFileWrite(S1, U.ci, file).store
             S3 == loadChunkSettled(S2, U.ci, okGet)
         IN getFileRead(S3, U.ci, file.path).ret

\* C7: after load(), updateFile(g) or addFile(g) for an indexed path, not
\* awaited, then getFile of that path returns g, not the previous record.
C7_PutThenGetReturnsNew ==
    status.chunks =>
        \A g \in KnownFiles : \A okPut, okGet \in BOOLEAN :
            /\ putThenGet(updateFile(Store, g), g, okPut, okGet) = RetFile(g)
            /\ putThenGet(addFile(Store, g), g, okPut, okGet) = RetFile(g)

\* C8: from any state with the chunks flag set, addFile(f) and updateFile(f)
\* leave the same lookup table, chunk cache and content list and await the
\* same fetch before the same in-place write, for an indexed path, a new
\* path, an empty path and a null file.
C8_UpsertEquivalence ==
    status.chunks =>
        \A file \in PutFiles :
            LET A == addFile(Store, file)
                U == updateFile(Store, file)
            IN A.store = U.store /\ A.ci = U.ci

\* C8 witness: a state where both branches change the store: an indexed
\* path to overwrite and a new path to insert.
C8_Witness ==
    /\ status.chunks
    /\ fileExists(lookup, "a") /\ addFile(Store, File("a", 2)).store # Store
    /\ ~fileExists(lookup, "d") /\ updateFile(Store, File("d", 1)).store # Store

\* C9: once load() has completed and no chunk fetch has been rejected,
\* getFile(p) for every indexed path p returns, without a fetch, a record
\* whose path is p.
C9_GetFileReturnsPath ==
    (status.chunks /\ ~rejected) =>
        \A path \in LookupPaths :
            LET G == getFile(Store, path)
            IN G.ci < 0 /\ G.ret.kind = "file" /\ G.ret.file.path = path

\* C9 witness: all of a two-bucket remote loaded and a file added.
C9_Witness ==
    /\ status.chunks /\ ~rejected
    /\ {"a", "c", "d"} \subseteq LookupPaths
    /\ getFile(Store, "c").ret = RetFile(File("c", 1))

\* C10: while the summary flag is false, getFile throws for every path,
\* awaits no fetch and leaves the store as it was.
C10_GetFileBeforeSummary ==
    ~status.summary =>
        \A path \in CallPaths \cup RemotePaths \cup {""} :
            getFile(Store, path) = Out(Store, Ret("throw"), -1)

\* C10 witness: the summary is not loaded, yet a chunk is (by loadChunk).
C10_Witness == ~status.summary /\ Loaded # {}

C12_GetFileUnknownPath ==
    status.summary =>
        \A path \in CallPaths \cup RemotePaths \cup {""} :
            (\A i \in 1..Len(lookup) : ~includes(lookup[i], path)) =>
                getFile(Store, path) = Out(Store, Ret("null"), -1)

\* C12 witness: a lookup table with buckets, some unloaded, and a path
\* that is in none of them.
C12_Witness ==
    /\ status.summary /\ Len(lookup) = 2 /\ Loaded = {0}
    /\ \A i \in 1..Len(lookup) : ~includes(lookup[i], "d")

\* updateFile as a caller that awaits it sees it: up to the await, the
\* fetch settling, and the two writes.
updateFileAwaited(S, file, ok) ==
    LET U == updateFile(S, file)
    IN IF U.ci < 0 THEN U
       ELSE updateFileWrite(loadChunkSettled(U.store, U.ci, ok), U.ci, file)

\* C13: with the required flag set, getFile(p) and updateFile(f) whose
\* chunk fetch is rejected complete with a return value (null, false) and
\* do not throw or reject.
C13_FetchFailureIsAValue ==
    /\ status.summary =>
          \A path \in CallPaths \cup RemotePaths :
              getFileAwaited(Store, path, FALSE).ret.kind # "throw"
    /\ status.chunks =>
          \A file \in PutFiles :
              updateFileAwaited(Store, file, FALSE).ret.kind # "throw"

\* Chunk indices a caller may pass to loadChunk.
ChunkIndices == 0..Max(Len(remote), Len(lookup))

C15_LoadChunkFetchesOnce ==
    \A i \in ChunkIndices :
        /\ \A ok1, ok2 \in BOOLEAN :
              LET L1 == loadChunk(Store, i, ok1)
                  L2 == loadChunk(L1.store, i, ok2)
              IN ~(L1.ci = i /\ L2.ci = i)
        /\ ~isChunkLoaded(chunks, i) =>
              loadChunk(loadChunkStore(Store, i, <<>>), i, TRUE).ci = -1

\* Mutant: only full slices are output.
outputChunksOf_fullOnly(list, k) ==
    [j \in 1..(Len(list) \div k) |->
        [key |-> chunkKeyToChunkPath(NAMESPACE, chunkIndexToChunkKey(j - 1)),
         chunk |-> SubSeq(list, (j - 1) * k + 1, j * k)]]

\* outputChunks on a content list with this.CHUNK_SIZE = k: the list cut
\* into consecutive slices of k, each under the chunk path of its index, in
\* the order the keys are inserted.
outputChunksOf(list, k) ==
    [j \in 1..((Len(list) + k - 1) \div k) |->
        [key |-> chunkKeyToChunkPath(NAMESPACE, chunkIndexToChunkKey(j - 1)),
         chunk |-> SubSeq(list, (j - 1) * k + 1,
                          IF j * k < Len(list) THEN j * k ELSE Len(list))]]

outputChunks(S) == outputChunksOf(S.content, CHUNK_SIZE)

outputSummary(S, m) == [meta |-> m, lookup |-> S.lookup]

\* The store is as loadSummary alone leaves it: summary flag set, chunks
\* flag not, no call pending, and no chunk fetch has resolved (the chunk
\* cache is empty) or been rejected.
AfterSummaryAlone ==
    status.summary /\ ~status.chunks /\ calls = EmptyBag /\ chunks = <<>> /\ ~rejected

\* C16: after loadSummary alone outputChunks is empty, and getFile(p) for
\* an indexed path p awaits one fetch, of the chunk whose bucket holds p;
\* it fetches nothing more, and no other chunk is loaded when it is done.
C16_LazyChunkFetch ==
    AfterSummaryAlone =>
        /\ outputChunks(Store) = <<>>
        /\ \A path \in LookupPaths : \A ok \in BOOLEAN :
              LET G == getFile(Store, path)
                  R == getFileRead(loadChunkSettled(G.store, G.ci, ok), G.ci, path)
              IN /\ G.ci >= 0 /\ includes(lookup[G.ci + 1], path)
                 /\ R.ci = -1
                 /\ \A k \in 0..(Len(R.store.chunks) - 1) :
                       isChunkLoaded(R.store.chunks, k) => k = G.ci

\* C16 witness: loadSummary alone adopted a lookup table of two buckets.
C16_Witness == AfterSummaryAlone /\ Len(lookup) = 2

\* The pending calls of load.
LoadFrames == {f \in BagToSet(calls) : f.op = "load"}

\* C17: load has at most one chunk fetch pending, always of an index in
\* 0..lookup.length-1; the index it stands at never decreases, and a fetch
\* pending before and after a step is the same fetch, so the fetch of a
\* higher index starts only after the one before it has settled.
C17_LoadFetchesInOrder ==
    [][ /\ \A g \in LoadFrames' :
              g.pc = "fetchChunk" => g.ci >= 0 /\ g.ci < Len(lookup')
        /\ \A f \in LoadFrames : \A g \in LoadFrames' :
              /\ g.ci >= f.ci
              /\ (f.pc = "fetchChunk" /\ g.pc = "fetchChunk") => g = f
              /\ (f.pc = "fetchChunk" /\ g.pc = "loop") => g.ci = f.ci + 1
        /\ \A g \in LoadFrames' :
              (g.pc = "fetchChunk" /\ LoadFrames = {}) => g.ci = 0 ]_vars

\* C17 witness: load is fetching the second of two chunks.
C17_Witness ==
    \E f \in LoadFrames : f.pc = "fetchChunk" /\ f.ci = 1 /\ Len(lookup) = 2

\* C18: a load that starts awaits the summary fetch exactly when the
\* summary flag is false; a load that has the summary and nothing to list
\* sets the chunks flag at once; and when a pending load completes the
\* chunks flag is true, whether or not chunk fetches were rejected.
C18_LoadSummaryFirstThenFlag ==
    [][ /\ \A g \in LoadFrames' :
              LoadFrames = {} => (g.pc = "fetchSummary" <=> ~status.summary)
        /\ (LoadFrames # {} /\ LoadFrames' = {}) => status'.chunks
        /\ (status.summary /\ lookup = <<>>) =>
              loadLoop(Store, 0, Len(lookup)).S.status.chunks ]_vars

\* C18 witness: load completed although the fetches of both chunks the
\* summary lists were rejected.
C18_Witness ==
    /\ status.chunks /\ rejected /\ calls = EmptyBag
    /\ Len(lookup) = 2 /\ Loaded = {}

\* Buckets of the lookup table whose chunk is not loaded.
Unloaded == {i \in 0..(Len(lookup) - 1) : ~isChunkLoaded(chunks, i)}

\* C19: a chunk that is not loaded (its fetch failed) becomes loaded only
\* by a fetch that resolves with its document; until then getFile,
\* updateFile and loadChunk that target it fetch it again, and when that
\* fetch resolves the chunk is loaded and the requested file is served.
C19_FailedChunkIsRetried ==
    [][ /\ \A i \in Unloaded :
              isChunkLoaded(chunks', i) =>
                  HasChunkDoc(remote, i) /\ chunks'[i + 1] = ChunkDoc(remote, i)
        /\ status.summary =>
              \A i \in Unloaded : \A j \in 1..Len(lookup[i + 1]) :
                  LET path == lookup[i + 1][j]
                      G == getFileAwaited(Store, path, TRUE)
                      L == loadChunk(Store, i, TRUE)
                  IN /\ getFile(Store, path).ci = i
                     /\ G.ret.kind = "file" /\ G.ret.file.path = path
                     /\ L.ci = i /\ L.ret = Ret("true")
                     /\ isChunkLoaded(L.store.chunks, i)
        /\ status.chunks =>
              \A file \in KnownFiles :
                  LET i == getChunkFileIsIn(lookup, file.path)
                      U == updateFileAwaited(Store, file, TRUE)
                  IN i \in Unloaded =>
                       /\ updateFile(Store, file).ci = i
                       /\ U.ret = Ret("true")
                       /\ getFile(U.store, file.path).ret = RetFile(file) ]_vars

\* C20: the chunks flag is never true while the summary flag is false, and
\* no step resets either flag from true to false.
C20_LoadStateOnlyForward ==
    /\ [](status.chunks => status.summary)
    /\ [][ (status.summary => status'.summary) /\ (status.chunks => status'.chunks) ]_vars

\* C20 witness: with both flags set, loadSummary has been called again and
\* its fetch is pending.
C20_Witness ==
    /\ status.summary /\ status.chunks
    /\ \E f \in BagToSet(calls) : f.op = "loadSummary" /\ f.pc = "fetchSummary"

\* The pending summary fetches (of loadSummary, called directly or by load).
SummaryFrames == {f \in BagToSet(calls) : f.pc = "fetchSummary"}

\* C21: however the summary fetch settles, loadSummary completes: when the
\* fetch is rejected or resolves with {} it leaves an empty lookup table,
\* the default version, fresh timestamps and the template's values; when
\* it resolves with a summary, lookup is that summary's lookup array; and
\* the step in which a summary fetch settles sets the summary flag.
C21_LoadSummaryFallsBack ==
    [][ /\ \A outcome \in FetchOutcomes : \A rem \in RemoteLookups \ {<<>>} :
              LET summary == summaryFetched(outcome, rem)
                  M == loadSummaryMeta(meta, summary)
              IN IF outcome = "summary"
                 THEN loadSummaryLookup(summary) = rem
                 ELSE /\ loadSummaryLookup(summary) = <<>>
                      /\ M.version = DOCUMENT_STORE_VERSION
                      /\ M.created_at = "now" /\ M.updated_at = "now"
                      /\ \A k \in DOMAIN metaTemplate : M[k] = metaTemplate[k]
        /\ (SummaryFrames # {} /\ SummaryFrames' = {}) =>
              /\ status'.summary
              /\ lookup' = remote
              /\ remote = <<>> => meta' = loadSummaryMeta(meta, defaultSummary) ]_vars

\* C21 witness: loadSummary has completed on a remote that holds no summary.
C21_Witness == status.summary /\ remote = <<>> /\ SummaryFrames = {} /\ lookup = <<>>

\* C22: every key of the metadata template is a key of meta in every state
\* reached by loadSummary, updateMetadata and setUpdatedAt; and when a
\* loadSummary completes, the value under each template key is the fetched
\* summary's value when the summary has the key, else the template's.
C22_TemplateKeysInMeta ==
    /\ [](DOMAIN metaTemplate \subseteq DOMAIN meta)
    /\ [][ (SummaryFrames # {} /\ SummaryFrames' = {}) =>
              \A k \in DOMAIN metaTemplate :
                  meta'[k] = IF remote # <<>> /\ k \in DOMAIN SummaryOf(remote).meta
                             THEN SummaryOf(remote).meta[k]
                             ELSE metaTemplate[k] ]_vars

\* C22 witness: updateMetadata added a key, and then loadSummary on a
\* remote whose summary lacks the template key put the template's value.
C22_Witness ==
    /\ status.summary /\ SummaryFrames = {}
    /\ "pipelines" \notin DOMAIN SummaryOf(remote).meta
    /\ "owner" \in DOMAIN meta /\ meta.pipelines = "template" /\ meta.updated_at = "later"

\* Chunk sizes a caller may set.
MaxChunkSize == 3

RECURSIVE Flatten(_)
Flatten(slices) ==
    IF slices = <<>> THEN <<>> ELSE slices[1].chunk \o Flatten(Tail(slices))

\* C23: for the content list of any reachable state (length N) and any
\* chunk size k >= 1, outputChunks has ceil(N/k) entries, entry j under the
\* chunk path of index j, no key twice, every entry of k records except
\* possibly the last, and the entries concatenated in index order are the
\* content list.
C23_OutputChunksPartition ==
    \A k \in 1..MaxChunkSize :
        LET O == outputChunksOf(content, k)
            N == Len(content)
        IN /\ Len(O) * k >= N /\ (Len(O) - 1) * k < N
           /\ \A j \in 1..Len(O) :
                 /\ O[j].key = <<".", NAMESPACE, "/", chunkIndexToChunkKey(j - 1), ".json">>
                 /\ \A i \in 1..Len(O) : O[i].key = O[j].key => i = j
                 /\ Len(O[j].chunk) >= 1 /\ Len(O[j].chunk) <= k
                 /\ j < Len(O) => Len(O[j].chunk) = k
           /\ Flatten(O) = content

\* C23 witness: a content list that CHUNK_SIZE does not divide, holding
\* fetched and added records.
C23_Witness ==
    /\ Len(content) = 2 * CHUNK_SIZE - 1
    /\ \E i \in 1..Len(content) : content[i].path = "d"

\* The store is as a load() in which every fetch resolved leaves it: the
\* lookup table is the summary's, every slot holds its chunk document, no
\* fetch was rejected and no call is pending.
AfterLoadAllFetched ==
    /\ status.chunks /\ ~rejected /\ calls = EmptyBag
    /\ lookup = remote
    /\ Len(chunks) = Len(remote)
    /\ \A i \in 0..(Len(remote) - 1) : chunks[i + 1] = ChunkDoc(remote, i)

\* C24: after a load() in which every fetch resolved, outputChunks has as
\* many keys as the lookup table of outputSummary has buckets, for every
\* summary with buckets of at most CHUNK_SIZE paths, full or not.
C24_OutputChunksPerBucket ==
    AfterLoadAllFetched =>
        Len(outputChunks(Store)) = Len(outputSummary(Store, meta).lookup)

\* C25: when addFile(f) is called for an indexed path and the updateFile it
\* delegates to fails (it throws, at once or after its chunk fetch was
\* rejected), addFile returns false.
C25_AddFileReportsFailedUpdate ==
    status.chunks =>
        \A file \in KnownFiles : \A ok \in BOOLEAN :
            updateFileAwaited(Store, file, ok).ret.kind = "throw" =>
                addFile(Store, file).ret = Ret("false")

\* The chunk indices i for which two calls are awaiting a fetch of i.
FetchedTwice ==
    {i \in 0..(Len(lookup) - 1) :
        \E f \in BagToSet(calls) :
            /\ f.pc = "fetchChunk" /\ f.ci = i
            /\ \/ calls[f] >= 2
               \/ \E g \in BagToSet(calls) : g # f /\ g.pc = "fetchChunk" /\ g.ci = i}

\* The chunk indices i for which some call is awaiting a fetch of i.
Fetching == {i \in 0..(Len(lookup) - 1) :
                \E f \in BagToSet(calls) : f.pc = "fetchChunk" /\ f.ci = i}

\* C26: while a call awaits the fetch of an unloaded chunk, a getFile of a
\* path of that chunk and a load that comes to it fetch it too; and when
\* two fetches of one chunk are pending and both resolve, the records are
\* appended to content twice while the slot holds the document once.
C26_ConcurrentFetchDuplicates ==
    /\ \A i \in Fetching :
          (status.summary /\ ~isChunkLoaded(chunks, i)) =>
              /\ \A j \in 1..Len(lookup[i + 1]) : getFile(Store, lookup[i + 1][j]).ci = i
              /\ loadLoop(Store, i, Len(lookup)).pc = "fetchChunk"
    /\ \A i \in FetchedTwice :
          LET doc == ChunkDoc(remote, i)
              S2 == loadChunkSettled(loadChunkSettled(Store, i, TRUE), i, TRUE)
          IN /\ S2.content = content \o doc \o doc
             /\ At(S2.chunks, i, Hole) = doc

\* C26 witness: all calls have settled, chunk 0 was fetched by two of them:
\* its slot holds the document once and content holds its record twice.
C26_Witness ==
    /\ calls = EmptyBag /\ isChunkLoaded(chunks, 0)
    /\ chunks[1] = ChunkDoc(remote, 0)
    /\ Cardinality({i \in 1..Len(content) : content[i] = chunks[1][1]}) = 2

\* C27: a path that is in the lookup table is in the lookup table after
\* every step of getFile, addFile, updateFile, load and loadSummary, and
\* getFile of it does not return null.
C27_NoPathIsDropped ==
    [][ \A path \in LookupPaths :
            /\ fileExists(lookup', path)
            /\ getFile(Store', path).ret # Ret("null") ]_vars

\* C28: the constructor throws for an empty or missing namespace and for a
\* missing fetch function, and for no other arguments; the store that a
\* successful construction yields has an empty lookup table, chunk cache
\* and content list and both flags false.
C28_ConstructorChecksArguments ==
    /\ lookup = <<>> /\ chunks = <<>> /\ content = <<>>
    /\ status = [summary |-> FALSE, chunks |-> FALSE]
    /\ [](\A namespace \in Namespaces : \A getRemote \in BOOLEAN :
            \A additionalMeta \in MetaUpdates \cup {metaTemplate} :
              LET C == constructor(namespace, getRemote, additionalMeta)
              IN IF namespace \in {"", NoNamespace} \/ ~getRemote
                 THEN C.ret = Ret("throw")
                 ELSE /\ C.ret # Ret("throw")
                      /\ C.lookup = <<>> /\ C.chunks = <<>> /\ C.content = <<>>
                      /\ C.status = [summary |-> FALSE, chunks |-> FALSE])

\* C28 witness: the store as the constructor leaves it, nothing called yet.
C28_Witness ==
    /\ Store = [lookup |-> <<>>, chunks |-> <<>>, content |-> <<>>,
                status |-> [summary |-> FALSE, chunks |-> FALSE]]
    /\ meta = constructor(NAMESPACE, TRUE, metaTemplate).meta
    /\ calls = EmptyBag

\* Chunk indices with one to five digits.
PathIndices == {0, 1, 9, 10, 17, 99, 100, 4321, 99999}

\* C29: the summary is fetched at .{namespace}/{namespace}.json, chunk i at
\* .{namespace}/{i as five digits, zero-padded}.json, and outputChunks keys
\* the slice of index i with the path loadChunk fetches chunk i at.
C29_DocumentPaths ==
    /\ \A namespace \in Namespaces \ {"", NoNamespace} :
          /\ loadSummaryPath(namespace) = <<".", namespace, "/", namespace, ".json">>
          /\ \A i \in PathIndices :
                loadChunkPath(namespace, i) =
                    <<".", namespace, "/",
                      <<(i \div 10000) % 10, (i \div 1000) % 10, (i \div 100) % 10,
                        (i \div 10) % 10, i % 10>>,
                      ".json">>
    /\ \A k \in 1..MaxChunkSize :
          LET O == outputChunksOf(content, k)
          IN \A j \in 1..Len(O) : O[j].key = loadChunkPath(NAMESPACE, j - 1)

\* C29 witness: the second chunk has been fetched and outputChunks has a
\* second key.
C29_Witness == isChunkLoaded(chunks, 1) /\ Len(outputChunks(Store)) >= 2

\* C30: with the chunks flag set, addFile of a null file and of a file with
\* an empty path, and updateFile of a null file, return false, await no
\* fetch and leave lookup, chunks and content as they were.
C30_RejectedPutsChangeNothing ==
    status.chunks =>
        /\ addFile(Store, NULLF) = Out(Store, Ret("false"), -1)
        /\ \A file \in {f \in PutFiles : f.path = ""} :
              addFile(Store, file) = Out(Store, Ret("false"), -1)
        /\ updateFile(Store, NULLF) = Out(Store, Ret("false"), -1)

\* C30 witness: a loaded store with records, nothing pending.
C30_Witness ==
    /\ status.chunks /\ calls = EmptyBag
    /\ Loaded = {0, 1} /\ Len(content) >= 3

\* C31: addFile of a new path returns true without a fetch; the lookup
\* table gets a new last bucket holding the path exactly when it was empty
\* or its last bucket held CHUNK_SIZE paths, and else the path is appended
\* to the last bucket; every other bucket, every chunk slot but the last
\* and the order of the paths already present are as before, and content
\* is the old list with the record appended.
C31_AddFileGrowsTheTail ==
    status.chunks =>
        \A file \in NewFiles :
            LET A == addFile(Store, file)
                L == A.store.lookup
                n == Len(lookup)
                opens == n = 0 \/ Len(lookup[n]) = CHUNK_SIZE
            IN /\ A.ret = Ret("true") /\ A.ci = -1
               /\ Len(L) = IF opens THEN n + 1 ELSE n
               /\ \A i \in 1..(Len(L) - 1) : L[i] = lookup[i]
               /\ L[Len(L)] = IF opens THEN <<file.path>> ELSE Append(lookup[n], file.path)
               /\ Len(A.store.chunks) >= Len(chunks)
               /\ \A i \in 1..(Len(chunks) - 1) : A.store.chunks[i] = chunks[i]
               /\ A.store.content = Append(content, file)
               /\ A.store.status = status

\* C31 witness: a new path is about to be added to a lookup table with a
\* full last bucket, whose chunk has been fetched.
C31_Witness ==
    /\ status.chunks /\ NewFiles # {}
    /\ Len(lookup) = 1 /\ Len(lookup[1]) = CHUNK_SIZE /\ Loaded = {0}

\* The positions at which two lists of records differ.
Differing(old, new) ==
    {k \in 1..Max(Len(old), Len(new)) : At(old, k - 1, UNDEF) # At(new, k - 1, UNDEF)}

\* C32: with the chunks flag set, updateFile(f) for an indexed path, its
\* chunk loaded or fetched by it, returns true; the lookup table and the
\* length of content are as before, the chunk cache differs at most in the
\* record at (bucket of the path, offset of the path), which is f, and
\* content differs at most in one record, which was the path's and is f.
C32_UpdateReplacesOneRecord ==
    status.chunks =>
        \A file \in KnownFiles :
            LET i == getChunkFileIsIn(lookup, file.path)
                o == getFileIndexInChunk(lookup, i, file.path)
                S0 == IF isChunkLoaded(chunks, i) THEN Store
                      ELSE loadChunkSettled(Store, i, TRUE)
                U == updateFileAwaited(Store, file, TRUE)
                D == Differing(S0.content, U.store.content)
            IN /\ U.ret = Ret("true")
               /\ U.store.lookup = lookup
               /\ Len(U.store.content) = Len(S0.content)
               /\ Len(U.store.chunks) = Len(S0.chunks)
               /\ \A k \in 1..Len(S0.chunks) :
                     k # i + 1 => U.store.chunks[k] = S0.chunks[k]
               /\ At(U.store.chunks, i, Hole) = SetAt(At(S0.chunks, i, Hole), o, file, UNDEF)
               /\ Len(At(U.store.chunks, i, Hole)) = Len(At(S0.chunks, i, Hole))
               /\ Cardinality(D) <= 1
               /\ \A k \in D : S0.content[k].path = file.path /\ U.store.content[k] = file
               /\ \E k \in 1..Len(U.store.content) : U.store.content[k] = file

\* this.chunks[i][o]: undefined in an unassigned slot and past a slot's end.
CachedRecord(ch, i, o) ==
    IF At(ch, i, Hole) = Hole THEN UNDEF ELSE At(At(ch, i, Hole), o, UNDEF)

\* C33: with the summary loaded, getFile(p) for an indexed path p, once the
\* fetch it may await has settled, returns the record the chunk cache
\* holds at (bucket of p, offset of p in the bucket), whatever the path
\* field of that record is, and leaves lookup, chunks, content and the
\* flags as the fetch left them.  (Where the cache holds no record at that
\* position getFile throws.)
C33_GetFileReturnsCachedRecord ==
    status.summary =>
        \A path \in LookupPaths : \A ok \in BOOLEAN :
            LET i == getChunkFileIsIn(lookup, path)
                o == getFileIndexInChunk(lookup, i, path)
                S1 == IF isChunkLoaded(chunks, i) THEN Store
                      ELSE loadChunkSettled(Store, i, ok)
                rec == CachedRecord(S1.chunks, i, o)
                G == getFileAwaited(Store, path, ok)
            IN rec # UNDEF => G.ret = RetFile(rec) /\ G.store = S1

\* C33 witness: the record the chunk cache holds at the position of an
\* indexed path has another path.
C33_Witness ==
    /\ status.summary
    /\ \E path \in LookupPaths :
          LET i == getChunkFileIsIn(lookup, path)
              rec == CachedRecord(chunks, i, getFileIndexInChunk(lookup, i, path))
          IN rec # UNDEF /\ rec.path # path /\ getFile(Store, path).ret = RetFile(rec)

\* The paths of a list of records, in order.
PathsOf(records) == [j \in 1..Len(records) |-> records[j].path]

\* C34: once load() has completed, whatever getFile, addFile and updateFile
\* calls follow and whichever fetches were rejected, for every bucket index
\* i whose chunk is loaded outputChunks has an entry under the chunk path of
\* i, and the paths of its records are outputSummary().lookup[i], in order.
C34_OutputAlignedWithIndex ==
    status.chunks =>
        \A i \in Loaded :
            i < Len(lookup) =>
                LET O == outputChunks(Store)
                IN /\ i < Len(O)
                   /\ O[i + 1].key = loadChunkPath(NAMESPACE, i)
                   /\ PathsOf(O[i + 1].chunk) = outputSummary(Store, meta).lookup[i + 1]

\* The paths of the records the chunk cache holds, and the paths of the
\* records of the remote's chunk documents.
CachedPaths ==
    {chunks[i][j].path : <<i, j>> \in {ij \in (1..Len(chunks)) \X (1..CHUNK_SIZE + 1) :
                                         chunks[ij[1]] # Hole /\ ij[2] <= Len(chunks[ij[1]])}}
PersistedPaths == {remote[i][j] : <<i, j>> \in {ij \in (1..Len(remote)) \X (1..CHUNK_SIZE + 1) :
                                                  ij[2] <= Len(remote[ij[1]])}}

\* C35: a path that addFile stored (it is in the chunk cache and in no
\* chunk document of the remote) is still in the chunk cache after every
\* step in which a chunk fetch settles, whichever call started the fetch
\* and whether it was pending when addFile ran.
C35_AddedFileStaysCached ==
    [][ ChunkSettles =>
            \A path \in CachedPaths \ PersistedPaths : path \in CachedPaths' ]_vars

\* C36: with the chunks flag set, whenever updateFile(f), awaited, resolves
\* to true (for an indexed path, a new path, an empty path), f.path is in
\* the lookup table and the getFile(f.path) that follows returns f.
C36_UpdateTrueMeansStored ==
    status.chunks =>
        \A file \in PutFiles : \A ok, okGet \in BOOLEAN :
            LET U == updateFileAwaited(Store, file, ok)
            IN U.ret = Ret("true") =>
                 /\ fileExists(U.store.lookup, file.path)
                 /\ getFileAwaited(U.store, file.path, okGet).ret = RetFile(file)

\* C37: in every state a single caller reaches with load, getFile, addFile
\* and updateFile, whichever fetches are rejected, against a remote whose
\* chunk documents hold each path once, no two records of the content list
\* have the same path and no entry of it is a hole.
C37_ContentHasNoDuplicateNoHole ==
    /\ \A k \in 1..Len(content) : content[k] # UNDEF
    /\ \A k, l \in 1..Len(content) : content[k].path = content[l].path => k = l

\* The records of the chunk cache, slot after slot in index order.
RECURSIVE ConcatChunks(_)
ConcatChunks(ch) ==
    IF ch = <<>> THEN <<>>
    ELSE (IF ch[1] = Hole THEN <<>> ELSE ch[1]) \o ConcatChunks(Tail(ch))

\* A step in which a load() completes: its frame ends, or it sets the
\* chunks flag without having had to await anything.
LoadCompletes ==
    \/ LoadFrames # {} /\ LoadFrames' = {}
    \/ ~status.chunks /\ status'.chunks

\* C38: when a load() completes and no fetch has been rejected, every chunk
\* index 0..lookup.length-1 is loaded, content is the concatenation of the
\* chunk slots in index order, and a load() called next comes to the end of
\* its loop without a fetch, leaving chunks and content as they are.
C38_LoadAllThenLoadAgain ==
    [][ (LoadCompletes /\ ~rejected') =>
            /\ \A i \in 0..(Len(lookup') - 1) : isChunkLoaded(chunks', i)
            /\ content' = ConcatChunks(chunks')
            /\ \A k \in 0..(Len(lookup') - 1) :
                  /\ loadLoop(Store', k, Len(lookup')).pc # "fetchChunk"
                  /\ loadLoop(Store', k, Len(lookup')).S = Store'
            /\ loadLoop(Store', Len(lookup'), Len(lookup')).S.chunks = chunks'
            /\ loadLoop(Store', Len(lookup'), Len(lookup')).S.content = content' ]_vars

\* The pending calls of a method that its caller awaits.
Awaited(op) == {f \in BagToSet(calls) : f.op = op /\ ~f.detached}
\* How many calls stand exactly where frame f stands.
Copies(bag, f) == IF f \in BagToSet(bag) THEN bag[f] ELSE 0

\* C39: when every fetch settles, every load, getFile and updateFile call
\* that its caller awaits completes, load with the chunks flag true; a load
\* awaits the summary fetch only as its first await, its chunk fetches are
\* of increasing indices below the number of buckets it listed; and a call
\* that awaits a fetch moves on only in the step in which a fetch settles.
C39_CallsComplete ==
    /\ \A op \in {"load", "getFile", "updateFile"} :
          (Awaited(op) # {}) ~> (Awaited(op) = {})
    /\ (LoadFrames # {}) ~> (LoadFrames = {} /\ status.chunks)
    /\ [](\A f \in LoadFrames :
            f.n >= 0 => /\ f.n = Len(lookup) /\ f.ci <= f.n
                        /\ f.pc = "fetchChunk" => f.ci < f.n)
    /\ [][ /\ \A f \in LoadFrames : \A g \in LoadFrames' :
                  /\ g.pc = "fetchSummary" => g = f
                  /\ (f.pc = "fetchChunk" /\ g # f) => g.ci > f.ci
           /\ \A h \in BagToSet(calls) :
                  (h.pc \in {"fetchSummary", "fetchChunk"} /\ Copies(calls', h) < calls[h])
                      => (SummarySettles \/ ChunkSettles) ]_vars

\* C39 witness: a load has completed, chunks flag true, after a summary
\* fetch and a fetch of each of two chunks, one of them rejected.
C39_Witness ==
    /\ status.chunks /\ LoadFrames = {} /\ calls = EmptyBag
    /\ Len(lookup) = 2 /\ Cardinality(Loaded) = 1 /\ rejected

\* C40: updateMetadata leaves lookup, chunks, content and the flags alone
\* and gives meta the passed keys with the passed values and every other
\* key with the value it had; setUpdatedAt changes only meta.updated_at;
\* a step of loadSummary (its call, its fetch settling) leaves chunks,
\* content and the chunks flag alone; and in every state outputSummary is
\* the pair of meta and lookup and outputChunks is cut from content alone.
C40_OnlyLoadChunkTouchesRecords ==
    /\ [](/\ outputSummary(Store, meta) = [meta |-> meta, lookup |-> lookup]
          /\ Flatten(outputChunks(Store)) = content)
    /\ [][ /\ CallUpdateMetadata =>
                /\ UNCHANGED <<lookup, chunks, content, status>>
                /\ \E add \in MetaUpdates :
                      /\ DOMAIN meta' = DOMAIN meta \cup DOMAIN add
                      /\ \A k \in DOMAIN add : meta'[k] = add[k]
                      /\ \A k \in DOMAIN meta \ DOMAIN add : meta'[k] = meta[k]
           /\ CallSetUpdatedAt =>
                /\ UNCHANGED <<lookup, chunks, content, status>>
                /\ DOMAIN meta' = DOMAIN meta
                /\ \A k \in DOMAIN meta \ {"updated_at"} : meta'[k] = meta[k]
           /\ (CallLoadSummary(TRUE) \/ SummarySettles) =>
                /\ UNCHANGED <<chunks, content>>
                /\ status'.chunks = status.chunks
           /\ (CallOutputSummary \/ CallOutputChunks) => UNCHANGED vars ]_vars

\* C40 witness: chunks are loaded, updateMetadata has added a key and
\* setUpdatedAt a date, and a later loadSummary has completed.
C40_Witness ==
    /\ Loaded = {0, 1} /\ Len(content) = 3 /\ calls = EmptyBag
    /\ "owner" \in DOMAIN meta /\ meta.updated_at = "later" /\ meta.pipelines = "remote"

====
